---------------------------- MODULE Spec2Model ----------------------------
(* Attendance-tracking service of src/app.py: the event store, the request *)
(* handlers that append to it or clear it, and the teacher dashboard report *)
(* derived from the latest event of each student.                          *)
(*                                                                         *)
(* Time is counted in whole minutes since the service's epoch.  A Python   *)
(* str is a sequence of one-character strings, so that lower() and title() *)
(* are computed character by character.  A JSON value is a record tagged   *)
(* by its type in field t.                                                 *)
EXTENDS Integers, Sequences, FiniteSets, TLC

VARIABLES client, storeUp, events_collection, now, lastOp, resp

vars == <<client, storeUp, events_collection, now, lastOp, resp>>

---------------------------------------------------------------------------
(* Bounds of the model *)

MaxEvents == 2

MaxTime == 6

---------------------------------------------------------------------------
(* Configuration *)

ACTIVITY_TIMEOUT_MINUTES == 5

IST_OFFSET == 330

MOCK_USERS ==
  << [key |-> "Leni", id |-> "MCA-428", name |-> "Leni E", role |-> "student", password |-> "123"],
     [key |-> "teacher", id |-> "tch-99b3", name |-> "Professor Jenifer Jose", role |-> "teacher", password |-> "admin"],
     [key |-> "Soni", id |-> "MCA-112", name |-> "Soni Priya", role |-> "student", password |-> "123"] >>

---------------------------------------------------------------------------
(* Python str operations *)

UpperLetters ==
  << "A","B","C","D","E","F","G","H","I","J","K","L","M",
     "N","O","P","Q","R","S","T","U","V","W","X","Y","Z" >>

LowerLetters ==
  << "a","b","c","d","e","f","g","h","i","j","k","l","m",
     "n","o","p","q","r","s","t","u","v","w","x","y","z" >>

IsUpper(c) == \E i \in 1..Len(UpperLetters) : UpperLetters[i] = c

IsLower(c) == \E i \in 1..Len(LowerLetters) : LowerLetters[i] = c

IsCased(c) == IsUpper(c) \/ IsLower(c)

LowerChar(c) ==
  IF IsUpper(c)
    THEN LowerLetters[CHOOSE i \in 1..Len(UpperLetters) : UpperLetters[i] = c]
    ELSE c

UpperChar(c) ==
  IF IsLower(c)
    THEN UpperLetters[CHOOSE i \in 1..Len(LowerLetters) : LowerLetters[i] = c]
    ELSE c

(* str.lower() *)
lower(s) == [i \in 1..Len(s) |-> LowerChar(s[i])]

(* str.title(): a cased character that follows an uncased one (or starts   *)
(* the string) is upper-cased, every other cased character lower-cased.    *)
title(s) ==
  [i \in 1..Len(s) |->
     IF i = 1 \/ ~IsCased(s[i - 1]) THEN UpperChar(s[i]) ELSE LowerChar(s[i])]

Digits == << "0","1","2","3","4","5","6","7","8","9" >>

TwoDigits(n) == << Digits[(n \div 10) + 1], Digits[(n % 10) + 1] >>

(* datetime.isoformat() of a naive datetime t minutes after the epoch      *)
(* 2024-01-01T00:00:00, for t within the first day: no zone suffix.        *)
isoformat(t) ==
  << "2","0","2","4","-","0","1","-","0","1","T" >>
    \o TwoDigits((t \div 60) % 24) \o << ":" >> \o TwoDigits(t % 60)
    \o << ":","0","0" >>

---------------------------------------------------------------------------
(* JSON values *)

JNull == [t |-> "null"]

JStr(s) == [t |-> "str", s |-> s]

JBool(b) == [t |-> "bool", b |-> b]

JObj(d) == [t |-> "obj", d |-> d]

(* dict.get(k, default) *)
DictGet(d, k, default) == IF k \in DOMAIN d THEN d[k] ELSE default

(* Python truth value of a JSON value *)
Truthy(v) ==
  CASE v.t = "bool" -> v.b
    [] v.t = "null" -> FALSE
    [] v.t = "str" -> Len(v.s) > 0
    [] OTHER -> TRUE

(* data[k] = v on a dict *)
DictSet(d, k, v) == [x \in (DOMAIN d) \cup {k} |-> IF x = k THEN v ELSE d[x]]

---------------------------------------------------------------------------
(* Requests the clients send *)

Chars_active == << "a","c","t","i","v","e" >>

Chars_idle == << "i","d","l","e" >>

Chars_IDLE == << "I","D","L","E" >>

Chars_AWAY == << "A","W","A","Y" >>

Chars_logged_out == << "l","o","g","g","e","d","_","o","u","t" >>

Chars_Logged_Out == << "L","o","g","g","e","d","_","O","u","t" >>

Chars_NA == << "N","/","A" >>

(* A bogus server_timestamp a client may put in its payload; no value of   *)
(* now equals it.                                                          *)
ClientSuppliedTimestamp == MaxTime + 1

(* Bodies of POST /api/track_attendance: a heartbeat of a student that    *)
(* carries its own server_timestamp, a heartbeat whose metadata is null,   *)
(* heartbeats of the teacher and of an id the directory does not know (its *)
(* metadata a bare string), and bodies with a required key missing.        *)
TrackPayloads ==
  { [user_id |-> "MCA-428", event_type |-> "heartbeat",
     metadata |-> JObj([client_status |-> JStr(Chars_active), tab_focused |-> JBool(TRUE)]),
     server_timestamp |-> ClientSuppliedTimestamp],
    [user_id |-> "MCA-112", event_type |-> "heartbeat", metadata |-> JNull],
    [user_id |-> "tch-99b3", event_type |-> "heartbeat",
     metadata |-> JObj([client_status |-> JStr(Chars_active), tab_focused |-> JBool(TRUE)])],
    [user_id |-> "MCA-000", event_type |-> "heartbeat", metadata |-> JStr(Chars_active)],
    [user_id |-> "MCA-428", event_type |-> "heartbeat"],
    [user_id |-> "MCA-428",
     metadata |-> JObj([client_status |-> JStr(Chars_active), tab_focused |-> JBool(TRUE)])],
    [event_type |-> "heartbeat",
     metadata |-> JObj([client_status |-> JStr(Chars_active), tab_focused |-> JBool(TRUE)])] }

(* Bodies of POST /api/track_attendance sent by the students' pages: the   *)
(* client_status in several spellings or left out, tab_focused given or   *)
(* left out.                                                               *)
StatusPayloads ==
  { [user_id |-> "MCA-428", event_type |-> "heartbeat",
     metadata |-> JObj([client_status |-> JStr(Chars_active), tab_focused |-> JBool(TRUE)])],
    [user_id |-> "MCA-428", event_type |-> "heartbeat",
     metadata |-> JObj([client_status |-> JStr(Chars_Logged_Out), tab_focused |-> JBool(TRUE)])],
    [user_id |-> "MCA-428", event_type |-> "heartbeat",
     metadata |-> JObj([client_status |-> JStr(Chars_AWAY)])],
    [user_id |-> "MCA-428", event_type |-> "heartbeat",
     metadata |-> JObj([tab_focused |-> JBool(TRUE)])],
    [user_id |-> "MCA-112", event_type |-> "heartbeat",
     metadata |-> JObj([client_status |-> JStr(Chars_IDLE), tab_focused |-> JBool(FALSE)])],
    [user_id |-> "MCA-112", event_type |-> "heartbeat",
     metadata |-> JObj([client_status |-> JStr(Chars_active)])] }

(* Bodies of POST /api/logout_attendance *)
LogoutPayloads ==
  { [user_id |-> "MCA-428"], [user_id |-> ""], [event_type |-> "logout"] }

NoResponse == [code |-> 0, data |-> << >>]

Response(code, data) == [code |-> code, data |-> data]

---------------------------------------------------------------------------
(* get_student_data: the report *)

(* Mutation of all_students: the role filter is left out *)
all_students_AnyRole ==
  [i \in 1..Len(MOCK_USERS) |-> [id |-> MOCK_USERS[i].id, name |-> MOCK_USERS[i].name]]

(* {id: name} of the student-role users, in MOCK_USERS order *)
all_students ==
  LET students == SelectSeq(MOCK_USERS, LAMBDA user_data : user_data.role = "student")
  IN  [i \in 1..Len(students) |-> [id |-> students[i].id, name |-> students[i].name]]

student_ids == { all_students[i].id : i \in 1..Len(all_students) }

(* $match: the stored events of known students *)
Matched(evs) == { i \in 1..Len(evs) : evs[i].user_id \in student_ids }

(* Mutation of LatestIndexes: the sort is ascending, the oldest event first *)
LatestIndexes_Oldest(evs, u) ==
  { i \in Matched(evs) :
      /\ evs[i].user_id = u
      /\ \A j \in Matched(evs) :
           evs[j].user_id = u => evs[j].server_timestamp >= evs[i].server_timestamp }

(* $sort by server_timestamp descending, $group by user_id with $first:    *)
(* the events that can come first for user_id u.  The order of events with *)
(* equal server_timestamp is not fixed by the sort.                        *)
LatestIndexes(evs, u) ==
  { i \in Matched(evs) :
      /\ evs[i].user_id = u
      /\ \A j \in Matched(evs) :
           evs[j].user_id = u => evs[j].server_timestamp <= evs[i].server_timestamp }

(* The user ids the aggregation returns a group for *)
GroupIds(evs) == { evs[i].user_id : i \in Matched(evs) }

(* The results the aggregation can return: user_id -> index of latest_event *)
Aggregations(evs) ==
  { g \in [GroupIds(evs) -> 1..Len(evs)] : \A u \in GroupIds(evs) : g[u] \in LatestIndexes(evs, u) }

(* event['metadata'].get('client_status', 'N/A') *)
RawClientStatus(event) == DictGet(event.metadata.d, "client_status", JStr(Chars_NA))

(* Lines 204-205 raise AttributeError: metadata is no dict, or the         *)
(* client_status is no str.                                                *)
Raises(event) ==
  \/ event.metadata.t # "obj"
  \/ RawClientStatus(event).t # "str"

Status(label, arg) == [label |-> label, arg |-> arg]

(* Mutation of StatusFocus: the staleness check comes before the logout check *)
StatusFocus_StalenessFirst(client_status, tab_focused, server_timestamp, timeout_threshold) ==
  IF server_timestamp < timeout_threshold
    THEN [status |-> Status("Offline (Inactive)", << >>), focus |-> "N/A"]
  ELSE IF client_status = Chars_logged_out
    THEN [status |-> Status("Logged Out", << >>), focus |-> "N/A"]
  ELSE IF client_status = Chars_active
    THEN [status |-> Status("Active", << >>),
          focus |-> IF Truthy(tab_focused) THEN "Focused" ELSE "Blurred"]
  ELSE IF client_status = Chars_idle
    THEN [status |-> Status("Idle", << >>),
          focus |-> IF Truthy(tab_focused) THEN "Focused" ELSE "Blurred"]
  ELSE [status |-> Status("Unknown", title(client_status)), focus |-> "N/A"]

(* Mutation of StatusFocus: an event exactly at the threshold is stale *)
StatusFocus_StaleAtThreshold(client_status, tab_focused, server_timestamp, timeout_threshold) ==
  IF client_status = Chars_logged_out
    THEN [status |-> Status("Logged Out", << >>), focus |-> "N/A"]
  ELSE IF server_timestamp <= timeout_threshold
    THEN [status |-> Status("Offline (Inactive)", << >>), focus |-> "N/A"]
  ELSE IF client_status = Chars_active
    THEN [status |-> Status("Active", << >>),
          focus |-> IF Truthy(tab_focused) THEN "Focused" ELSE "Blurred"]
  ELSE IF client_status = Chars_idle
    THEN [status |-> Status("Idle", << >>),
          focus |-> IF Truthy(tab_focused) THEN "Focused" ELSE "Blurred"]
  ELSE [status |-> Status("Unknown", title(client_status)), focus |-> "N/A"]

(* Mutation of StatusFocus: a stale event is reported as a logout *)
StatusFocus_StaleIsLoggedOut(client_status, tab_focused, server_timestamp, timeout_threshold) ==
  IF client_status = Chars_logged_out \/ server_timestamp < timeout_threshold
    THEN [status |-> Status("Logged Out", << >>), focus |-> "N/A"]
  ELSE IF client_status = Chars_active
    THEN [status |-> Status("Active", << >>),
          focus |-> IF Truthy(tab_focused) THEN "Focused" ELSE "Blurred"]
  ELSE IF client_status = Chars_idle
    THEN [status |-> Status("Idle", << >>),
          focus |-> IF Truthy(tab_focused) THEN "Focused" ELSE "Blurred"]
  ELSE [status |-> Status("Unknown", title(client_status)), focus |-> "N/A"]

(* The status determination with the staleness check *)
StatusFocus(client_status, tab_focused, server_timestamp, timeout_threshold) ==
  IF client_status = Chars_logged_out
    THEN [status |-> Status("Logged Out", << >>), focus |-> "N/A"]
  ELSE IF server_timestamp < timeout_threshold
    THEN [status |-> Status("Offline (Inactive)", << >>), focus |-> "N/A"]
  ELSE IF client_status = Chars_active
    THEN [status |-> Status("Active", << >>),
          focus |-> IF Truthy(tab_focused) THEN "Focused" ELSE "Blurred"]
  ELSE IF client_status = Chars_idle
    THEN [status |-> Status("Idle", << >>),
          focus |-> IF Truthy(tab_focused) THEN "Focused" ELSE "Blurred"]
  ELSE [status |-> Status("Unknown", title(client_status)), focus |-> "N/A"]

NeverLoggedInRow(user_id, name) ==
  [id |-> user_id, name |-> name, status |-> Status("Never Logged In", << >>),
   focus |-> "N/A", last_event |-> "None", timestamp |-> Chars_NA]

(* The row appended for a student whose latest event is event *)
EventRow(user_id, name, event, timeout_threshold) ==
  LET client_status == lower(RawClientStatus(event).s)
      tab_focused == DictGet(event.metadata.d, "tab_focused", JBool(FALSE))
      sf == StatusFocus(client_status, tab_focused, event.server_timestamp, timeout_threshold)
  IN  [id |-> user_id, name |-> name, status |-> sf.status, focus |-> sf.focus,
       last_event |-> event.event_type,
       timestamp |-> isoformat(event.server_timestamp + IST_OFFSET)]

(* The response of get_student_data when the aggregation returned g *)
StudentReport(evs, g, utcnow) ==
  LET timeout_threshold == utcnow - ACTIVITY_TIMEOUT_MINUTES
      HasEvent(i) == all_students[i].id \in DOMAIN g
      latest(i) == evs[g[all_students[i].id]]
  IN  IF \E i \in 1..Len(all_students) : HasEvent(i) /\ Raises(latest(i))
        THEN Response(500, << >>)
        ELSE Response(200,
               [i \in 1..Len(all_students) |->
                  IF ~HasEvent(i)
                    THEN NeverLoggedInRow(all_students[i].id, all_students[i].name)
                    ELSE EventRow(all_students[i].id, all_students[i].name,
                                  latest(i), timeout_threshold)])

---------------------------------------------------------------------------
(* State after the module is loaded: the connection attempt of lines 18-29 *)
(* leaves client set when the store answered and None when it did not.     *)
(* storeUp tells whether the store was reachable when the last request ran. *)

Init ==
  /\ storeUp \in BOOLEAN
  /\ client = storeUp
  /\ events_collection = << >>
  /\ now = 0
  /\ lastOp = "none"
  /\ resp = NoResponse

(* all(k in data for k in ['user_id', 'event_type', 'metadata']) *)
HasRequiredFields(data) ==
  \A k \in {"user_id", "event_type", "metadata"} : k \in DOMAIN data

(* Mutation of StampedEvent: a server_timestamp the client sent is kept *)
StampedEvent_KeepClientTimestamp(data, utcnow) ==
  IF "server_timestamp" \in DOMAIN data THEN data ELSE DictSet(data, "server_timestamp", utcnow)

(* The document track_attendance stores for data at time utcnow *)
StampedEvent(data, utcnow) == DictSet(data, "server_timestamp", utcnow)

(* The document logout_attendance builds for user_id at time utcnow; its   *)
(* client_timestamp is never read.                                         *)
LogoutEvent(user_id, utcnow) ==
  [user_id |-> user_id,
   event_type |-> "logout",
   metadata |-> JObj([client_status |-> JStr(Chars_logged_out), tab_focused |-> JBool(FALSE)]),
   server_timestamp |-> utcnow]

(* events_collection.insert_one(doc) *)
InsertOne(coll, doc) == Append(coll, doc)

(* Mutation of DeleteMany: only the events of known students are deleted *)
DeleteMany_StudentsOnly(coll) == SelectSeq(coll, LAMBDA doc : doc.user_id \notin student_ids)

(* events_collection.delete_many({}) *)
DeleteMany(coll) == << >>

(* Mutation of ClientMissing: the handlers do not check client *)
ClientMissing_NeverChecked == FALSE

(* if not client *)
ClientMissing == ~client

(* POST /api/track_attendance, the store being reachable or not *)
TrackAttendance(data, reachable) ==
  /\ lastOp' = "track_attendance"
  /\ storeUp' = reachable
  /\ UNCHANGED <<client, now>>
  /\ IF ClientMissing
       THEN /\ resp' = Response(503, << >>)
            /\ UNCHANGED events_collection
     ELSE IF ~HasRequiredFields(data)
       THEN /\ resp' = Response(400, << >>)
            /\ UNCHANGED events_collection
     ELSE IF ~reachable
       THEN /\ resp' = Response(500, << >>)
            /\ UNCHANGED events_collection
     ELSE /\ Len(events_collection) < MaxEvents
          /\ events_collection' = InsertOne(events_collection, StampedEvent(data, now))
          /\ resp' = Response(200, << >>)

(* POST /api/logout_attendance *)
LogoutAttendance(data, reachable) ==
  /\ lastOp' = "logout_attendance"
  /\ storeUp' = reachable
  /\ UNCHANGED <<client, now>>
  /\ IF ClientMissing
       THEN /\ resp' = Response(503, << >>)
            /\ UNCHANGED events_collection
     ELSE IF DictGet(data, "user_id", "") = ""
       THEN /\ resp' = Response(400, << >>)
            /\ UNCHANGED events_collection
     ELSE IF ~reachable
       THEN /\ resp' = Response(500, << >>)
            /\ UNCHANGED events_collection
     ELSE /\ Len(events_collection) < MaxEvents
          /\ events_collection' = InsertOne(events_collection, LogoutEvent(data.user_id, now))
          /\ resp' = Response(200, << >>)

(* POST /api/admin/clear_events *)
ClearAllEvents(reachable) ==
  /\ lastOp' = "clear_all_events"
  /\ storeUp' = reachable
  /\ UNCHANGED <<client, now>>
  /\ IF ClientMissing
       THEN /\ resp' = Response(503, << >>)
            /\ UNCHANGED events_collection
     ELSE IF ~reachable
       THEN /\ resp' = Response(500, << >>)
            /\ UNCHANGED events_collection
     ELSE /\ events_collection' = DeleteMany(events_collection)
          /\ resp' = Response(200, << >>)

(* GET /api/admin/students *)
GetStudentData(reachable) ==
  /\ lastOp' = "get_student_data"
  /\ storeUp' = reachable
  /\ UNCHANGED <<client, now, events_collection>>
  /\ IF ClientMissing
       THEN resp' = Response(503, << >>)
     ELSE IF ~reachable
       THEN resp' = Response(500, << >>)
     ELSE \E g \in Aggregations(events_collection) :
            resp' = StudentReport(events_collection, g, now)

(* datetime.utcnow() advances between requests; the response of the last   *)
(* request has been delivered.                                             *)
Tick ==
  /\ now < MaxTime
  /\ now' = now + 1
  /\ lastOp' = "none"
  /\ resp' = NoResponse
  /\ UNCHANGED <<client, storeUp, events_collection>>

(* Whether the MongoDB server answers is the environment's choice at each  *)
(* request.  A client that failed to connect at start-up is never rebuilt. *)
Next ==
  \/ \E data \in TrackPayloads, reachable \in BOOLEAN : TrackAttendance(data, reachable)
  \/ \E data \in LogoutPayloads, reachable \in BOOLEAN : LogoutAttendance(data, reachable)
  \/ \E reachable \in BOOLEAN : ClearAllEvents(reachable)
  \/ \E reachable \in BOOLEAN : GetStudentData(reachable)
  \/ Tick

Spec == Init /\ [][Next]_vars

(* The service with the store reachable throughout, serving the students'  *)
(* pages.                                                                  *)
InitStatus ==
  /\ storeUp = TRUE
  /\ client = TRUE
  /\ events_collection = << >>
  /\ now = 0
  /\ lastOp = "none"
  /\ resp = NoResponse

NextStatus ==
  \/ \E data \in StatusPayloads : TrackAttendance(data, TRUE)
  \/ \E data \in LogoutPayloads : LogoutAttendance(data, TRUE)
  \/ ClearAllEvents(TRUE)
  \/ GetStudentData(TRUE)
  \/ Tick

SpecStatus == InitStatus /\ [][NextStatus]_vars

---------------------------------------------------------------------------
(* Vocabulary of the properties *)

StoreOps == {"track_attendance", "logout_attendance", "clear_all_events", "get_student_data"}

(* The last request was the dashboard's and a report came back *)
ReportBuilt == lastOp = "get_student_data" /\ resp.code = 200

(* The stored events of user u, and those of them with the maximum         *)
(* server_timestamp                                                        *)
EventsOf(u) == { i \in 1..Len(events_collection) : events_collection[i].user_id = u }

Newest(u) ==
  { i \in EventsOf(u) :
      \A j \in EventsOf(u) :
        events_collection[j].server_timestamp <= events_collection[i].server_timestamp }

(* metadata.client_status of e equals chars, letter case ignored *)
ClientStatusIs(e, chars) ==
  /\ e.metadata.t = "obj"
  /\ "client_status" \in DOMAIN e.metadata.d
  /\ e.metadata.d.client_status.t = "str"
  /\ lower(e.metadata.d.client_status.s) = lower(chars)

IsLogout(e) == ClientStatusIs(e, Chars_logged_out)

LoggedOut == Status("Logged Out", << >>)

(* The procedure for an event that is no logout, at time t: staleness,     *)
(* then active, then idle, then unknown                                    *)
ProcedureStatusFocus(e, t) ==
  LET given == "client_status" \in DOMAIN e.metadata.d
      raw == IF given THEN e.metadata.d.client_status.s ELSE Chars_NA
      focused == /\ "tab_focused" \in DOMAIN e.metadata.d
                 /\ e.metadata.d.tab_focused.t = "bool"
                 /\ e.metadata.d.tab_focused.b
      focus == IF focused THEN "Focused" ELSE "Blurred"
  IN  IF e.server_timestamp < t - 5
        THEN << Status("Offline (Inactive)", << >>), "N/A" >>
      ELSE IF given /\ ClientStatusIs(e, Chars_active)
        THEN << Status("Active", << >>), focus >>
      ELSE IF given /\ ClientStatusIs(e, Chars_idle)
        THEN << Status("Idle", << >>), focus >>
      ELSE << Status("Unknown", title(raw)), "N/A" >>

(* The rows user u can get in a report built from evs at time t: none when *)
(* the report fails                                                        *)
PossibleRows(evs, t, u) ==
  { r \in UNION { { StudentReport(evs, g, t).data[i] :
                      i \in 1..Len(StudentReport(evs, g, t).data) } :
                  g \in Aggregations(evs) } :
      r.id = u }

---------------------------------------------------------------------------
(* C1: in every report, a student all of whose newest events (maximum      *)
(* server_timestamp) have client_status "logged_out", letter case ignored, *)
(* is Logged Out with focus N/A, however old those events are.             *)
LogoutDominatesStaleness ==
  ReportBuilt =>
    \A i \in 1..Len(resp.data) :
      LET u == resp.data[i].id
      IN  (EventsOf(u) # {} /\ \A j \in Newest(u) : IsLogout(events_collection[j]))
            => resp.data[i].status = LoggedOut /\ resp.data[i].focus = "N/A"

(* A report shows a student Logged Out whose newest event is a logout in   *)
(* another letter case and older than the activity timeout.                *)
StaleLogoutReported ==
  /\ ReportBuilt
  /\ \E i \in 1..Len(resp.data) :
       /\ resp.data[i].status = LoggedOut
       /\ \A j \in Newest(resp.data[i].id) :
            /\ IsLogout(events_collection[j])
            /\ events_collection[j].metadata.d.client_status.s # Chars_logged_out
            /\ events_collection[j].server_timestamp < now - ACTIVITY_TIMEOUT_MINUTES

(* C2: in every report, the (status, focus) of a student none of whose     *)
(* newest events is a logout is what the ordered procedure gives for one   *)
(* of them: Offline (Inactive) when strictly older than 5 minutes, else    *)
(* Active, else Idle, with focus by tab_focused, else Unknown(title-cased). *)
StatusFollowsProcedure ==
  ReportBuilt =>
    \A i \in 1..Len(resp.data) :
      LET u == resp.data[i].id
      IN  (EventsOf(u) # {} /\ \A j \in Newest(u) : ~IsLogout(events_collection[j]))
            => \E j \in Newest(u) :
                 << resp.data[i].status, resp.data[i].focus >>
                   = ProcedureStatusFocus(events_collection[j], now)

(* A report shows Unknown (Away) for one student and Idle/Blurred for      *)
(* another whose only event is exactly 5 minutes old.                      *)
UnknownAndThresholdIdleReported ==
  /\ ReportBuilt
  /\ \E i, k \in 1..Len(resp.data) :
       /\ resp.data[i].status = Status("Unknown", << "A","w","a","y" >>)
       /\ resp.data[i].focus = "N/A"
       /\ resp.data[k].status = Status("Idle", << >>)
       /\ resp.data[k].focus = "Blurred"
       /\ \A j \in EventsOf(resp.data[k].id) :
            events_collection[j].server_timestamp = now - 5

(* C3: every report has exactly the rows of the student-role users, in     *)
(* MOCK_USERS order: MCA-428 then MCA-112, whatever events are stored.     *)
ReportRowsAreTheStudents ==
  ReportBuilt =>
    /\ [i \in 1..Len(resp.data) |-> resp.data[i].id] = << "MCA-428", "MCA-112" >>
    /\ [i \in 1..Len(resp.data) |-> resp.data[i].name] = << "Leni E", "Soni Priya" >>

(* A report is built while the store holds an event of the teacher and an  *)
(* event of an unknown id, and no event of a student.                      *)
ReportWithForeignEvents ==
  /\ ReportBuilt
  /\ EventsOf("tch-99b3") # {}
  /\ EventsOf("MCA-000") # {}
  /\ EventsOf("MCA-428") = {}
  /\ EventsOf("MCA-112") = {}

(* C4: in every report, the row of a student with stored events is derived *)
(* from one stored event of that student with the maximum                  *)
(* server_timestamp: its event type, its timestamp and its status.         *)
LatestWins ==
  ReportBuilt =>
    \A i \in 1..Len(resp.data) :
      LET u == resp.data[i].id
          row == resp.data[i]
      IN  EventsOf(u) # {} =>
            \E j \in Newest(u) :
              LET e == events_collection[j]
              IN  /\ row.last_event = e.event_type
                  /\ row.timestamp = isoformat(e.server_timestamp + IST_OFFSET)
                  /\ IF IsLogout(e)
                       THEN row.status = LoggedOut /\ row.focus = "N/A"
                       ELSE << row.status, row.focus >> = ProcedureStatusFocus(e, now)

(* The same payload was stored twice, at two times, the earlier copy stale *)
(* and the later fresh, and the report shows the later one.                *)
DuplicateReportedOnce ==
  /\ ReportBuilt
  /\ Len(events_collection) = 2
  /\ events_collection[1].server_timestamp < now - ACTIVITY_TIMEOUT_MINUTES
  /\ events_collection[2].server_timestamp = now
  /\ events_collection[2]
       = [events_collection[1] EXCEPT !.server_timestamp = events_collection[2].server_timestamp]
  /\ \E i \in 1..Len(resp.data) :
       /\ resp.data[i].id = events_collection[2].user_id
       /\ resp.data[i].status = Status("Active", << >>)
       /\ resp.data[i].timestamp = isoformat(now + IST_OFFSET)

(* C5: a track_attendance request of a connected service whose payload    *)
(* lacks user_id, event_type or metadata is answered 400 and stores        *)
(* nothing; one with all three keys, the store answering, is answered 200  *)
(* and appends exactly one event, stamped with the server's time whatever  *)
(* server_timestamp the payload carried, the earlier events unchanged; and *)
(* a request that is not answered 200 stores nothing.                      *)
TrackIsAllOrNothing ==
  [][ \A data \in TrackPayloads, reachable \in BOOLEAN :
        TrackAttendance(data, reachable) =>
          LET complete == {"user_id", "event_type", "metadata"} \subseteq DOMAIN data
              before == events_collection
              after == events_collection'
          IN  /\ (client /\ ~complete) => (resp'.code = 400 /\ after = before)
              /\ (client /\ complete /\ reachable) =>
                   /\ resp'.code = 200
                   /\ Len(after) = Len(before) + 1
                   /\ SubSeq(after, 1, Len(before)) = before
                   /\ after[Len(after)].server_timestamp = now
                   /\ after[Len(after)].user_id = data.user_id
                   /\ after[Len(after)].event_type = data.event_type
                   /\ after[Len(after)].metadata = data.metadata
                   /\ DOMAIN after[Len(after)]
                        = {"user_id", "event_type", "metadata", "server_timestamp"}
              /\ resp'.code # 200 => after = before
    ]_vars

(* track_attendance has just stored a second event, stamped with the       *)
(* current time, behind an older one.                                      *)
SecondEventStamped ==
  /\ lastOp = "track_attendance"
  /\ resp.code = 200
  /\ Len(events_collection) = 2
  /\ events_collection[1].server_timestamp < now
  /\ events_collection[2].server_timestamp = now
  /\ events_collection[2].event_type = "heartbeat"

(* C6 as stated: a student is Logged Out in a report only if a newest      *)
(* event of that student is the document logout_attendance builds:         *)
(* event_type "logout", client_status "logged_out", tab_focused false.     *)
LoggedOutOnlyByLogoutAttendance ==
  ReportBuilt =>
    \A i \in 1..Len(resp.data) :
      resp.data[i].status = LoggedOut =>
        \E j \in Newest(resp.data[i].id) :
          /\ events_collection[j].event_type = "logout"
          /\ events_collection[j].metadata
               = JObj([client_status |-> JStr(Chars_logged_out), tab_focused |-> JBool(FALSE)])

(* C6 as amended: a student is Logged Out in a report only if a newest     *)
(* event of that student has client_status "logged_out", letter case       *)
(* ignored; and the event logout_attendance stores has event_type          *)
(* "logout", client_status "logged_out" and tab_focused false.             *)
LoggedOutOnlyByLogoutStatus ==
  /\ ReportBuilt =>
       \A i \in 1..Len(resp.data) :
         resp.data[i].status = LoggedOut =>
           \E j \in Newest(resp.data[i].id) : IsLogout(events_collection[j])
  /\ (lastOp = "logout_attendance" /\ resp.code = 200) =>
       LET e == events_collection[Len(events_collection)]
       IN  /\ e.event_type = "logout"
           /\ e.metadata
                = JObj([client_status |-> JStr(Chars_logged_out), tab_focused |-> JBool(FALSE)])
           /\ e.server_timestamp = now

(* A report shows a student Logged Out all of whose newest events are      *)
(* heartbeats stored by track_attendance.                                  *)
LoggedOutByHeartbeat ==
  /\ ReportBuilt
  /\ \E i \in 1..Len(resp.data) :
       /\ resp.data[i].status = LoggedOut
       /\ \A j \in Newest(resp.data[i].id) : events_collection[j].event_type = "heartbeat"

(* C7 as stated: a store-dependent request that finds the store            *)
(* unreachable is answered 503 (a request whose payload is rejected with   *)
(* 400 before the store is used is left aside).                            *)
UnreachableStoreAnswers503 ==
  (lastOp \in StoreOps /\ ~storeUp /\ resp.code # 400) => resp.code = 503

(* C7 as amended: a service whose connection failed at start-up answers    *)
(* every store-dependent request 503; a connected service that finds the   *)
(* store unreachable answers 500, or 400 when track_attendance or          *)
(* logout_attendance rejects the payload first; and a request that is not  *)
(* answered 200 returns no rows and leaves the stored events unchanged.    *)
OutageAnswers ==
  [][ lastOp' \in StoreOps =>
        /\ ~client => resp'.code = 503
        /\ (client /\ ~storeUp') =>
             \/ resp'.code = 500
             \/ resp'.code = 400 /\ lastOp' \in {"track_attendance", "logout_attendance"}
        /\ resp'.code # 200 =>
             (resp'.data = << >> /\ events_collection' = events_collection)
    ]_vars

(* The dashboard of a connected service finds the store unreachable while  *)
(* events are stored, and is answered 500 without rows.                    *)
ReportFailsInOutage ==
  /\ lastOp = "get_student_data"
  /\ client
  /\ ~storeUp
  /\ resp = Response(500, << >>)
  /\ Len(events_collection) > 0

(* C8: in every report a student with no stored event is Never Logged In,  *)
(* focus N/A, last_event None, timestamp N/A; and a clear_all_events that  *)
(* is answered 200 leaves no event stored.                                 *)
NoEventsMeansNeverLoggedIn ==
  /\ ReportBuilt =>
       \A i \in 1..Len(resp.data) :
         EventsOf(resp.data[i].id) = {} =>
           /\ resp.data[i].status = Status("Never Logged In", << >>)
           /\ resp.data[i].focus = "N/A"
           /\ resp.data[i].last_event = "None"
           /\ resp.data[i].timestamp = << "N", "/", "A" >>
  /\ (lastOp = "clear_all_events" /\ resp.code = 200) => events_collection = << >>

(* Later than the activity timeout, with events of other users stored, a   *)
(* report shows both students Never Logged In.                             *)
AllNeverLoggedInReported ==
  /\ ReportBuilt
  /\ now > ACTIVITY_TIMEOUT_MINUTES
  /\ Len(events_collection) > 0
  /\ Len(resp.data) = 2
  /\ \A i \in 1..Len(resp.data) :
       /\ EventsOf(resp.data[i].id) = {}
       /\ resp.data[i].status = Status("Never Logged In", << >>)

(* C9: an accepted insert is appended to the stored events, and never      *)
(* changes the rows a student other than its user_id can get in a report   *)
(* at that time.                                                           *)
InsertsDoNotInterfere ==
  [][ (lastOp' \in {"track_attendance", "logout_attendance"} /\ resp'.code = 200) =>
        /\ Len(events_collection') = Len(events_collection) + 1
        /\ SubSeq(events_collection', 1, Len(events_collection)) = events_collection
        /\ \A u \in {"MCA-428", "MCA-112"} :
             u # events_collection'[Len(events_collection')].user_id =>
               PossibleRows(events_collection', now', u) = PossibleRows(events_collection, now, u)
    ]_vars

(* C10: with the store reachable, a report request succeeds and returns a  *)
(* row for every student, whatever events were accepted before.            *)
ReportSucceedsWhenReachable ==
  (lastOp = "get_student_data" /\ client /\ storeUp) =>
    (resp.code = 200 /\ Len(resp.data) = 2)

=============================================================================
